---- MODULE Spec2Model ----
(***************************************************************************)
(* Model of aas_repository_client.client.AASRepositoryClient: the client's *)
(* session state (token, auth_headers), the local filesystem it reads and  *)
(* writes, the remote repository server it talks to, and one action per    *)
(* public method.  Each action records the call, the HTTP requests it      *)
(* issued, the response it received and its outcome (return or raise).     *)
(***************************************************************************)
EXTENDS Integers, Sequences, FiniteSets, TLC

VARIABLES uri, username, token, auth_headers,   \* AASRepositoryClient fields
          fs,                                   \* local files: path -> Optional bytes
          store,                                \* the remote server
          call, requests, response, outcome     \* the last call and what it did

vars == <<uri, username, token, auth_headers, fs, store,
          call, requests, response, outcome>>

\* ------------------------------------------------------------------ bounds
MaxContentLen == 2

\* ------------------------------------------------------- Python values
\* Optional[T]: None is the empty tuple, any other value v is <<v>>.
None == << >>
Some(x) == <<x>>
IsNone(o) == Len(o) = 0

\* dict item assignment d[k] = v
DictSet(d, k, v) == [x \in (DOMAIN d) \cup {k} |-> IF x = k THEN v ELSE d[x]]

Return(v) == [kind |-> "return", value |-> v]
Raise(e, a) == [kind |-> "raise", exc |-> e, args |-> a]

\* ------------------------------------------------------- input domains
Tokens == {"abc", "xyz"}
Passwords == {"test", "wrong"}
CorrectPassword == "test"

FileBytes == {10, 65}
RECURSIVE SeqsUpTo(_, _)
SeqsUpTo(S, n) ==
    IF n = 0 THEN {<< >>}
    ELSE LET shorter == SeqsUpTo(S, n - 1)
         IN shorter \cup {Append(s, b) : s \in {t \in shorter : Len(t) = n - 1}, b \in S}
Contents == SeqsUpTo(FileBytes, MaxContentLen)

\* local paths, as sequences of characters
Paths == {<<"d", "/", "b">>, <<"m">>}
SavePaths == {<<"d", "/", "b">>}
FileIris == {"file:1"}

\* model.IdentifierType and its JSON names
IDENTIFIER_TYPES == (0 :> "IRDI") @@ (1 :> "IRI") @@ (2 :> "Custom")
IDENTIFIER_TYPES_INVERSE ==
    [n \in {IDENTIFIER_TYPES[t] : t \in DOMAIN IDENTIFIER_TYPES} |->
        CHOOSE t \in DOMAIN IDENTIFIER_TYPES : IDENTIFIER_TYPES[t] = n]

Identifier(id_, id_type) == [cls |-> "Identifier", id |-> id_, id_type |-> id_type]
Identifiers == {Identifier("https://x/S1", 1), Identifier("https://x/S1", 2)}
Submodel(identification, id_short) ==
    [cls |-> "Submodel", identification |-> identification, id_short |-> id_short]
Identifiables == {Submodel(Identifier("https://x/S1", 1), "S"),
                  Submodel(Identifier("https://x/S1", 1), "T"),
                  Submodel(Identifier("https://x/S1", 2), "S")}

Key(type_, local, value, id_type) ==
    [cls |-> "Key", type |-> type_, local |-> local, value |-> value, id_type |-> id_type]
SemanticKeys == {Key("GlobalReference", FALSE, "https://example.com/semanticIDs/TWO", "IRI")}

\* ------------------------------------------------------- JSON codec
\* response.content / request data: either the text of a JSON value or
\* bytes that are not JSON
Json(v) == [t |-> "json", json |-> v]
Raw(b) == [t |-> "raw", bytes |-> b]

\* json.dumps(obj, cls=AASToJsonEncoder)
AASToJsonEncoder(obj) ==
    CASE obj.cls = "Identifier" ->
            [id |-> obj.id, idType |-> IDENTIFIER_TYPES[obj.id_type]]
      [] obj.cls = "Submodel" ->
            [modelType |-> "Submodel",
             identification |-> [id |-> obj.identification.id,
                                 idType |-> IDENTIFIER_TYPES[obj.identification.id_type]],
             idShort |-> obj.id_short]
      [] obj.cls = "Key" ->
            [type |-> obj.type, local |-> obj.local, value |-> obj.value,
             idType |-> obj.id_type]

\* json.loads(content, cls=AASFromJsonDecoder): objects carrying a modelType
\* are constructed, other JSON objects stay dicts
AASFromJsonDecoder(j) ==
    IF "modelType" \in DOMAIN j
    THEN Submodel(Identifier(j.identification.id,
                             IDENTIFIER_TYPES_INVERSE[j.identification.idType]),
                  j.idShort)
    ELSE j @@ [cls |-> "dict"]

\* bytes.decode("utf-8")
Chr == (10 :> "\n") @@ (65 :> "A") @@ (69 :> "E")
Utf8Decode(b) == [i \in DOMAIN b |-> Chr[b[i]]]

\* ------------------------------------------------------- transport
HTTPBasicAuth(user, password) == [username |-> user, password |-> password]
Request(method, url, headers, data, auth) ==
    [method |-> method, url |-> url, headers |-> headers, data |-> data, auth |-> auth]
Endpoint(req) == req.url[2]

\* ------------------------------------------------------- remote server
ErrorBody == Raw(<<69>>)

\* the server accepts a request whose x-access-tokens header is a token it issued
ServerAuthorized(headers) ==
    /\ ~IsNone(headers)
    /\ "x-access-tokens" \in DOMAIN headers[1]
    /\ headers[1]["x-access-tokens"] \in Tokens

ServerAccepts(req) == ServerAuthorized(req.headers)

ServerFailures(req) ==
    {[status |-> IF ServerAccepts(req) THEN 404 ELSE 401, content |-> ErrorBody]}

\* the Identifier named by the JSON of an identifier
ServerIdentifier(j) == Identifier(j.id, IDENTIFIER_TYPES_INVERSE[j.idType])
ServerHas(i) == i \in DOMAIN store /\ ~IsNone(store[i])

ServerQueryMatches ==
    {<< >>} \cup
    {<<[identifier |-> AASToJsonEncoder(i), asset_administration_shell |-> a]>> :
        i \in {x \in Identifiers : ServerHas(x)},
        a \in {None, Some(AASToJsonEncoder(Identifier("https://x/AAS", 0)))}}

\* the responses the server may give to a request
ServerResponses(req) ==
    LET ep == Endpoint(req)
        ok(S) == IF ServerAccepts(req) THEN {[status |-> 200, content |-> c] : c \in S} ELSE {}
    IN CASE ep = "/login" ->
              IF req.auth[1].password = CorrectPassword
              THEN {[status |-> 200, content |-> Json([token |-> t])] : t \in Tokens}
              ELSE {[status |-> 401, content |-> Json([message |-> "could not verify"])],
                    [status |-> 401, content |-> ErrorBody]}
         [] ep = "/get_identifiable" ->
              LET i == ServerIdentifier(req.data[1].json)
              IN ServerFailures(req) \cup
                 (IF ServerHas(i)
                  THEN ok({Json(AASToJsonEncoder(store[i][1])), ErrorBody})
                  ELSE {})
         [] ep = "/modify_identifiable" ->
              LET x == AASFromJsonDecoder(req.data[1].json)
              IN ServerFailures(req) \cup
                 (IF ServerHas(x.identification)
                  THEN ok({Json(AASToJsonEncoder(x.identification))})
                  ELSE {})
         [] ep = "/add_identifiable" ->
              LET x == AASFromJsonDecoder(req.data[1].json)
              IN ServerFailures(req) \cup ok({Json(AASToJsonEncoder(x.identification))})
         [] ep = "/query_semantic_id" ->
              ServerFailures(req) \cup ok({Json(m) : m \in ServerQueryMatches} \cup {ErrorBody})
         [] ep = "/get_fmu" ->
              ServerFailures(req) \cup ok({Raw(c) : c \in Contents})
         [] ep = "/post_file" ->
              ServerFailures(req) \cup ok({Raw(<<65>>)})

\* the server's store after it answered res to req
ServerStore(req, res) ==
    IF ~res.err /\ res.status = 200
       /\ Endpoint(req) \in {"/add_identifiable", "/modify_identifiable"}
    THEN LET x == AASFromJsonDecoder(req.data[1].json)
         IN [store EXCEPT ![x.identification] = Some(x)]
    ELSE store

\* requests.get / put / post: a transport failure or one of the server's answers
Send(req) ==
    {[err |-> TRUE]} \cup
    {[err |-> FALSE, status |-> r.status, content |-> r.content] : r \in ServerResponses(req)}

ResponseOf(res) == IF res.err THEN None ELSE Some([status |-> res.status, content |-> res.content])

AASRepositoryServerError(args) == Raise("AASRepositoryServerError", args)

\* ------------------------------------------------------- AASRepositoryClient
Init ==
    /\ uri = "http://127.0.0.1:2234"
    /\ username = "test"
    /\ token = None
    /\ auth_headers = None
    /\ fs = [p \in Paths |-> IF p \in SavePaths THEN Some(<<65, 65>>) ELSE None]
    /\ store = [i \in Identifiers |-> None]
    /\ call = [op |-> "__init__"]
    /\ requests = << >>
    /\ response = None
    /\ outcome = Return(None)

\* login that resets the session before it parses the response
login_result_resets(res, tok, hdrs) ==
    LET reset(o) == [token |-> None, auth_headers |-> None, outcome |-> o]
    IN IF res.err THEN reset(Raise("ConnectionError", << >>))
       ELSE IF res.content.t # "json" THEN reset(Raise("JSONDecodeError", << >>))
       ELSE IF "token" \notin DOMAIN res.content.json THEN reset(Raise("KeyError", << >>))
       ELSE [token |-> Some(res.content.json.token),
             auth_headers |-> Some("x-access-tokens" :> res.content.json.token),
             outcome |-> Return(None)]

\* lines 40-41 of login: the client's token and auth_headers, and the outcome,
\* after the transport gave res
login_result(res, tok, hdrs) ==
    LET unchanged(o) == [token |-> tok, auth_headers |-> hdrs, outcome |-> o]
    IN IF res.err THEN unchanged(Raise("ConnectionError", << >>))
       ELSE IF res.content.t # "json" THEN unchanged(Raise("JSONDecodeError", << >>))
       ELSE IF "token" \notin DOMAIN res.content.json THEN unchanged(Raise("KeyError", << >>))
       ELSE [token |-> Some(res.content.json.token),
             auth_headers |-> Some("x-access-tokens" :> res.content.json.token),
             outcome |-> Return(None)]

login(password) ==
    LET req == Request("GET", <<uri, "/login">>, None, None,
                       Some(HTTPBasicAuth(username, password)))
    IN \E res \in Send(req) :
        LET r == login_result(res, token, auth_headers)
        IN /\ token' = r.token
           /\ auth_headers' = r.auth_headers
           /\ call' = [op |-> "login", password |-> password]
           /\ requests' = <<req>>
           /\ response' = ResponseOf(res)
           /\ outcome' = r.outcome
           /\ store' = ServerStore(req, res)
           /\ UNCHANGED <<uri, username, fs>>

\* get_identifiable that sends the id string with the default id type
get_identifiable_request_id_only(identifier) ==
    Request("GET", <<uri, "/get_identifiable">>, auth_headers,
            Some(Json(AASToJsonEncoder(Identifier(identifier.id, 1)))), None)

get_identifiable_request(identifier) ==
    Request("GET", <<uri, "/get_identifiable">>, auth_headers,
            Some(Json(AASToJsonEncoder(identifier))), None)

\* get_identifiable without the else branch that raises: a non-200 response
\* with failsafe false falls through to the decoding
get_identifiable_result_no_raise(res, identifier, failsafe) ==
    IF res.err THEN Raise("ConnectionError", << >>)
    ELSE IF res.status # 200 /\ failsafe THEN Return(None)
    ELSE IF res.content.t # "json" THEN Raise("JSONDecodeError", << >>)
    ELSE LET identifiable == AASFromJsonDecoder(res.content.json)
         IN IF identifiable.cls # "Submodel" THEN Raise("AssertionError", << >>)
            ELSE Return(Some(identifiable))

get_identifiable_result(res, identifier, failsafe) ==
    IF res.err THEN Raise("ConnectionError", << >>)
    ELSE IF res.status # 200
    THEN IF failsafe THEN Return(None)
         ELSE AASRepositoryServerError([template |-> "Response status is not 200"])
    ELSE IF res.content.t # "json" THEN Raise("JSONDecodeError", << >>)
    ELSE LET identifiable == AASFromJsonDecoder(res.content.json)
         IN IF identifiable.cls # "Submodel" THEN Raise("AssertionError", << >>)
            ELSE Return(Some(identifiable))

get_identifiable(identifier, failsafe) ==
    LET req == get_identifiable_request(identifier)
    IN \E res \in Send(req) :
        /\ call' = [op |-> "get_identifiable", identifier |-> identifier, failsafe |-> failsafe]
        /\ requests' = <<req>>
        /\ response' = ResponseOf(res)
        /\ outcome' = get_identifiable_result(res, identifier, failsafe)
        /\ store' = ServerStore(req, res)
        /\ UNCHANGED <<uri, username, token, auth_headers, fs>>

\* modify_identifiable that ignores failsafe
modify_identifiable_result_no_failsafe(res, identifiable, failsafe) ==
    IF res.err THEN Raise("ConnectionError", << >>)
    ELSE IF res.status # 200
    THEN AASRepositoryServerError(
                [template |-> "Could not fetch Identifiable with id {} from the server {}: {}",
                 context |-> identifiable.identification.id,
                 uri |-> uri,
                 body |-> Utf8Decode(res.content.bytes)])
    ELSE Return(Some(identifiable.identification))

modify_identifiable_result(res, identifiable, failsafe) ==
    IF res.err THEN Raise("ConnectionError", << >>)
    ELSE IF res.status # 200
    THEN IF failsafe THEN Return(None)
         ELSE AASRepositoryServerError(
                [template |-> "Could not fetch Identifiable with id {} from the server {}: {}",
                 context |-> identifiable.identification.id,
                 uri |-> uri,
                 body |-> Utf8Decode(res.content.bytes)])
    ELSE Return(Some(identifiable.identification))

modify_identifiable(identifiable, failsafe) ==
    LET req == Request("PUT", <<uri, "/modify_identifiable">>, auth_headers,
                       Some(Json(AASToJsonEncoder(identifiable))), None)
    IN \E res \in Send(req) :
        /\ call' = [op |-> "modify_identifiable", identifiable |-> identifiable,
                    failsafe |-> failsafe]
        /\ requests' = <<req>>
        /\ response' = ResponseOf(res)
        /\ outcome' = modify_identifiable_result(res, identifiable, failsafe)
        /\ store' = ServerStore(req, res)
        /\ UNCHANGED <<uri, username, token, auth_headers, fs>>

add_identifiable_result(res, identifiable, failsafe) ==
    IF res.err THEN Raise("ConnectionError", << >>)
    ELSE IF res.status # 200
    THEN IF failsafe THEN Return(None)
         ELSE AASRepositoryServerError(
                [template |-> "Could not add Identifiable with id {} to the server {}: {}",
                 context |-> identifiable.identification.id,
                 uri |-> uri,
                 body |-> Utf8Decode(res.content.bytes)])
    ELSE Return(Some(identifiable.identification))

add_identifiable(identifiable, failsafe) ==
    LET req == Request("POST", <<uri, "/add_identifiable">>, auth_headers,
                       Some(Json(AASToJsonEncoder(identifiable))), None)
    IN \E res \in Send(req) :
        /\ call' = [op |-> "add_identifiable", identifiable |-> identifiable,
                    failsafe |-> failsafe]
        /\ requests' = <<req>>
        /\ response' = ResponseOf(res)
        /\ outcome' = add_identifiable_result(res, identifiable, failsafe)
        /\ store' = ServerStore(req, res)
        /\ UNCHANGED <<uri, username, token, auth_headers, fs>>

\* a file opened without truncation ('r+b'): the tail of a longer old
\* content survives the write
write_file_no_truncate(files, save_as, content) ==
    [files EXCEPT ![save_as] =
        IF IsNone(@) THEN Some(content)
        ELSE Some(content \o SubSeq(@[1], Len(content) + 1, Len(@[1])))]

\* open(save_as, 'wb') and file.write(content): the file is created or
\* truncated, then holds exactly content
write_file(files, save_as, content) == [files EXCEPT ![save_as] = Some(content)]

get_file_result(res, file_iri, failsafe) ==
    IF res.err THEN Raise("ConnectionError", << >>)
    ELSE IF res.status # 200
    THEN IF failsafe THEN Return(None)
         ELSE AASRepositoryServerError(
                [template |-> "Could not fetch FMU-File with id {} from the server {}: {}",
                 context |-> file_iri,
                 uri |-> uri,
                 body |-> Utf8Decode(res.content.bytes)])
    ELSE Return(Some(file_iri))

get_file(file_iri, save_as, failsafe) ==
    LET req == Request("GET", <<uri, "/get_fmu">>, auth_headers, Some(Json(file_iri)), None)
    IN \E res \in Send(req) :
        /\ call' = [op |-> "get_file", file_iri |-> file_iri, save_as |-> save_as,
                    failsafe |-> failsafe]
        /\ requests' = <<req>>
        /\ response' = ResponseOf(res)
        /\ outcome' = get_file_result(res, file_iri, failsafe)
        /\ fs' = IF ~res.err /\ res.status = 200
                 THEN write_file(fs, save_as, res.content.bytes)
                 ELSE fs
        /\ store' = ServerStore(req, res)
        /\ UNCHANGED <<uri, username, token, auth_headers>>

\* str.split(sep)
RECURSIVE Split(_, _)
Split(str, sep) ==
    IF \A i \in DOMAIN str : str[i] # sep THEN <<str>>
    ELSE LET k == CHOOSE i \in DOMAIN str :
                      str[i] = sep /\ \A j \in 1..(i - 1) : str[j] # sep
         IN <<SubSeq(str, 1, k - 1)>> \o Split(SubSeq(str, k + 1, Len(str)), sep)

\* file_path.split('/')[-1]
BaseName(file_path) == LET parts == Split(file_path, "/") IN parts[Len(parts)]

\* os.path.isfile
isfile(file_path) == file_path \in DOMAIN fs /\ ~IsNone(fs[file_path])

\* iterating a file opened in mode 'rb': one chunk per line, newline kept
RECURSIVE generate(_)
generate(content) ==
    IF Len(content) = 0 THEN << >>
    ELSE IF \A i \in DOMAIN content : content[i] # 10 THEN <<content>>
    ELSE LET k == CHOOSE i \in DOMAIN content :
                      content[i] = 10 /\ \A j \in 1..(i - 1) : content[j] # 10
         IN <<SubSeq(content, 1, k)>> \o generate(SubSeq(content, k + 1, Len(content)))

\* lines 161-162 of add_file: header_with_name is the client's own
\* auth_headers object, so the item assignment changes self.auth_headers;
\* on None the item assignment raises TypeError
add_file_headers(hdrs, file_path) ==
    IF IsNone(hdrs) THEN [raised |-> TRUE, auth_headers |-> hdrs]
    ELSE [raised |-> FALSE,
          auth_headers |-> Some(DictSet(hdrs[1], "name", BaseName(file_path)))]

add_file_result(res, header_with_name, failsafe) ==
    IF res.err THEN Raise("ConnectionError", << >>)
    ELSE IF res.status # 200
    THEN IF failsafe THEN Return(None)
         ELSE AASRepositoryServerError(
                [template |-> "Could not add FMU {} to the server {}: {}",
                 context |-> header_with_name["name"],
                 uri |-> uri,
                 body |-> Utf8Decode(res.content.bytes)])
    ELSE Return(Some(Utf8Decode(res.content.bytes)))

add_file(file_path, failsafe) ==
    LET h == add_file_headers(auth_headers, file_path)
        thecall == [op |-> "add_file", file_path |-> file_path, failsafe |-> failsafe]
    IN IF h.raised
       THEN /\ call' = thecall
            /\ requests' = << >>
            /\ response' = None
            /\ outcome' = Raise("TypeError", << >>)
            /\ UNCHANGED <<uri, username, token, auth_headers, fs, store>>
       ELSE IF ~isfile(file_path)
       THEN /\ call' = thecall
            /\ auth_headers' = h.auth_headers
            /\ requests' = << >>
            /\ response' = None
            /\ outcome' = Raise("FileNotFoundError", [template |-> "Could not find file in {}",
                                                       context |-> file_path])
            /\ UNCHANGED <<uri, username, token, fs, store>>
       ELSE LET req == Request("POST", <<uri, "/post_file">>, h.auth_headers,
                               Some([t |-> "chunked", chunks |-> generate(fs[file_path][1])]), None)
            IN \E res \in Send(req) :
                /\ call' = thecall
                /\ auth_headers' = h.auth_headers
                /\ requests' = <<req>>
                /\ response' = ResponseOf(res)
                /\ outcome' = add_file_result(res, h.auth_headers[1], failsafe)
                /\ store' = ServerStore(req, res)
                /\ UNCHANGED <<uri, username, token, fs>>

\* query_semantic_id that raises on a non-200 response, as the other methods do
query_semantic_id_result_raises(res) ==
    IF res.err THEN Raise("ConnectionError", << >>)
    ELSE IF res.status # 200
    THEN AASRepositoryServerError([template |-> "Response status is not 200"])
    ELSE Return(Some(<< >>))

\* lines 220-242 of query_semantic_id
query_semantic_id_result(res) ==
    IF res.err THEN Raise("ConnectionError", << >>)
    ELSE IF res.status # 200 THEN Return(Some(<< >>))
    ELSE IF res.content.t # "json" THEN Raise("JSONDecodeError", << >>)
    ELSE LET found_identifier_data == res.content.json
             entry(data) ==
                <<Identifier(data["identifier"]["id"],
                             IDENTIFIER_TYPES_INVERSE[data["identifier"]["idType"]]),
                  IF ~IsNone(data["asset_administration_shell"])
                  THEN Some(Identifier(
                          data["asset_administration_shell"][1]["id"],
                          IDENTIFIER_TYPES_INVERSE[data["asset_administration_shell"][1]["idType"]]))
                  ELSE None>>
         IN Return(Some([n \in DOMAIN found_identifier_data |->
                            entry(found_identifier_data[n])]))

query_semantic_id(semantic_id, check_for_key_type, check_for_key_local, check_for_key_id_type) ==
    LET req == Request("GET", <<uri, "/query_semantic_id">>, auth_headers,
                       Some(Json([semantic_id |-> AASToJsonEncoder(semantic_id),
                                  check_for_key_type |-> check_for_key_type,
                                  check_for_key_local |-> check_for_key_local,
                                  check_for_key_id_type |-> check_for_key_id_type])), None)
    IN \E res \in Send(req) :
        /\ call' = [op |-> "query_semantic_id", semantic_id |-> semantic_id,
                    check_for_key_type |-> check_for_key_type,
                    check_for_key_local |-> check_for_key_local,
                    check_for_key_id_type |-> check_for_key_id_type]
        /\ requests' = <<req>>
        /\ response' = ResponseOf(res)
        /\ outcome' = query_semantic_id_result(res)
        /\ store' = ServerStore(req, res)
        /\ UNCHANGED <<uri, username, token, auth_headers, fs>>

Next ==
    \/ \E password \in Passwords : login(password)
    \/ \E identifier \in Identifiers, failsafe \in BOOLEAN :
          get_identifiable(identifier, failsafe)
    \/ \E identifiable \in Identifiables, failsafe \in BOOLEAN :
          modify_identifiable(identifiable, failsafe)
    \/ \E identifiable \in Identifiables, failsafe \in BOOLEAN :
          add_identifiable(identifiable, failsafe)
    \/ \E file_iri \in FileIris, save_as \in SavePaths, failsafe \in BOOLEAN :
          get_file(file_iri, save_as, failsafe)
    \/ \E file_path \in Paths, failsafe \in BOOLEAN : add_file(file_path, failsafe)
    \/ \E semantic_id \in SemanticKeys, kt \in BOOLEAN, kl \in BOOLEAN, kit \in BOOLEAN :
          query_semantic_id(semantic_id, kt, kl, kit)

Spec == Init /\ [][Next]_vars

\* ------------------------------------------------------- properties
Answered == ~IsNone(response)
Status == response[1].status
ReturnsNone == outcome.kind = "return" /\ IsNone(outcome.value)
ReturnsValue == outcome.kind = "return" /\ ~IsNone(outcome.value)
RaisesServerError == outcome.kind = "raise" /\ outcome.exc = "AASRepositoryServerError"
FailsafeOps == {"get_identifiable", "modify_identifiable", "add_identifiable",
                "get_file", "add_file"}

C2_QuerySilentEmpty ==
    (call.op = "query_semantic_id" /\ Answered /\ Status # 200) =>
        (outcome.kind = "return" /\ outcome.value = Some(<< >>))

C2_Witness ==
    /\ call.op = "query_semantic_id" /\ Answered /\ Status # 200
    /\ call.check_for_key_type /\ call.check_for_key_local /\ call.check_for_key_id_type
    /\ ~IsNone(token)
    /\ outcome.kind = "return"

\* C3: add_file on a path that names no existing file raises
\* FileNotFoundError and sends no HTTP request, whatever failsafe is and
\* whether or not the client has logged in.
C3_MissingFileIsLocalError ==
    (call.op = "add_file" /\ ~isfile(call.file_path)) =>
        (outcome.kind = "raise" /\ outcome.exc = "FileNotFoundError" /\ requests = << >>)

\* C4: token and auth_headers are both unset, or auth_headers is exactly
\* {"x-access-tokens": token}.
C4_HeadersAreTokenOnly ==
    \/ IsNone(token) /\ IsNone(auth_headers)
    \/ /\ ~IsNone(token) /\ ~IsNone(auth_headers)
       /\ DOMAIN auth_headers[1] = {"x-access-tokens"}
       /\ auth_headers[1]["x-access-tokens"] = token[1]

\* C5: before the first successful login (token is still None) a
\* get_identifiable request carries no headers and the call never returns an
\* Identifiable: when the server answers, the call raises
\* AASRepositoryServerError (failsafe false) or returns None (failsafe true).
C5_NoIdentifiableBeforeLogin ==
    (IsNone(token) /\ call.op = "get_identifiable") =>
        /\ \A n \in DOMAIN requests : IsNone(requests[n].headers)
        /\ ~ReturnsValue
        /\ Answered => (Status # 200 /\ IF call.failsafe THEN ReturnsNone
                                        ELSE RaisesServerError)

C5_Witness ==
    /\ IsNone(token) /\ call.op = "get_identifiable" /\ Answered
    /\ ~call.failsafe /\ RaisesServerError

\* C6: a login that raises leaves token and auth_headers as they were
\* before the call.
C6_FailedLoginKeepsSession ==
    [][(call'.op = "login" /\ outcome'.kind = "raise") =>
          (token' = token /\ auth_headers' = auth_headers)]_vars

C6_Witness ==
    /\ call.op = "login" /\ outcome.kind = "raise" /\ outcome.exc = "KeyError"
    /\ ~IsNone(token) /\ ~IsNone(auth_headers)

\* C7: on a 200 response add_identifiable returns the identifier of the
\* object passed in, and a get_identifiable on that returned identifier that
\* returns an object returns one whose identifier is that identifier.
C7_AddGetRoundTrip ==
    [][/\ (call'.op = "add_identifiable" /\ ~IsNone(response') /\ response'[1].status = 200) =>
            (outcome'.kind = "return"
             /\ outcome'.value = Some(call'.identifiable.identification))
       /\ (/\ call.op = "add_identifiable" /\ ReturnsValue
           /\ call'.op = "get_identifiable" /\ call'.identifier = outcome.value[1]
           /\ outcome'.kind = "return" /\ ~IsNone(outcome'.value)) =>
            (outcome'.value[1].identification = call.identifiable.identification)
      ]_vars

C7_Witness ==
    /\ call.op = "get_identifiable" /\ ReturnsValue
    /\ call.identifier.id_type = 2
    /\ outcome.value[1].identification = call.identifier

\* C8: the AASRepositoryServerError raised by get_identifiable carries the
\* requested identifier, the server URI and the response body.
C8_GetErrorCarriesContext ==
    (call.op = "get_identifiable" /\ RaisesServerError) =>
        /\ {"context", "uri", "body"} \subseteq DOMAIN outcome.args
        /\ outcome.args.context = call.identifier.id
        /\ outcome.args.uri = uri
        /\ outcome.args.body = Utf8Decode(response[1].content.bytes)

\* C9: on a 200 response get_file leaves save_as holding exactly the
\* response body and returns the file IRI it was given.
C9_GetFileWritesBody ==
    (call.op = "get_file" /\ Answered /\ Status = 200) =>
        /\ fs[call.save_as] = Some(response[1].content.bytes)
        /\ outcome.kind = "return" /\ outcome.value = Some(call.file_iri)

C9_Witness ==
    /\ call.op = "get_file" /\ Answered /\ Status = 200
    /\ fs[call.save_as] = Some(<<10>>)

\* C10: on a logged-in client every request to an endpoint other than
\* /post_file carries the x-access-tokens header only, and a /post_file
\* request carries as name the base name of the file of that call.
C10_NameHeaderOnlyOnUpload ==
    ~IsNone(token) =>
        \A n \in DOMAIN requests :
            LET r == requests[n]
            IN IF Endpoint(r) = "/post_file"
               THEN r.headers[1]["name"] = BaseName(call.file_path)
               ELSE Endpoint(r) # "/login" =>
                        (~IsNone(r.headers) /\ DOMAIN r.headers[1] = {"x-access-tokens"})

====
